---- MODULE Spec2Model ----
(***************************************************************************)
(* Model of server.js: an Express application that stores one JSON to-do   *)
(* document per calendar day in a Google Drive folder (GET/POST            *)
(* /api/todos) and mails task reminders (POST /api/send-reminder), behind  *)
(* a passport session.                                                     *)
(*                                                                         *)
(* Every asynchronous handler is cut at its awaits: one action runs the    *)
(* handler from the request's arrival to its first await, and one action   *)
(* per await runs the remote call at the store (or the mail relay) with    *)
(* the handler's continuation up to the next await or the response.        *)
(***************************************************************************)
EXTENDS Integers, Sequences, FiniteSets, TLC

\* ------------------------------------------------------------------ bounds

\* The Drive folder's capacity: the store rejects a create beyond it.
MaxFiles == 2
\* How many times the wall clock advances in one behaviour.
MaxTicks == 1
\* Clock instants per calendar day (the granularity of the model's clock).
TicksPerDay == 2
\* KeySpec starts the clock at most this many instants before or after
\* StartInstant.
KeySpan == 800

\* ------------------------------------------------------- text as characters

\* A string is a sequence of one-character strings.
UpperChars == <<"A","B","C","D","E","F","G","H","I","J","K","L","M",
                "N","O","P","Q","R","S","T","U","V","W","X","Y","Z">>
LowerChars == <<"a","b","c","d","e","f","g","h","i","j","k","l","m",
                "n","o","p","q","r","s","t","u","v","w","x","y","z">>
DigitChars == <<"0","1","2","3","4","5","6","7","8","9">>

\* String.prototype.toLowerCase, one character.
LowerChar(c) ==
    IF \E i \in 1..Len(UpperChars) : UpperChars[i] = c
    THEN LowerChars[CHOOSE i \in 1..Len(UpperChars) : UpperChars[i] = c]
    ELSE c

\* String.prototype.toLowerCase.
toLowerCase(s) == [i \in 1..Len(s) |-> LowerChar(s[i])]

\* --------------------------------------------------------------- the clock

\* dayjs(): the local calendar date of an instant, as days since 1970-01-01.
DayOf(t) == t \div TicksPerDay

\* The proleptic Gregorian date of a day number (days since 1970-01-01).
CivilFromDays(days) ==
    LET z   == days + 719468
        era == z \div 146097
        doe == z - era * 146097
        yoe == (doe - doe \div 1460 + doe \div 36524 - doe \div 146096) \div 365
        doy == doe - (365 * yoe + yoe \div 4 - yoe \div 100)
        mp  == (5 * doy + 2) \div 153
        d   == doy - (153 * mp + 2) \div 5 + 1
        m   == IF mp < 10 THEN mp + 3 ELSE mp - 9
        y   == yoe + era * 400 + (IF m <= 2 THEN 1 ELSE 0)
    IN  [year |-> y, month |-> m, day |-> d]

\* Date.prototype.getDay: 0 is Sunday; 1970-01-01 was a Thursday.
DayOfWeek(days) == (days + 4) % 7

\* dayjs's English locale: weekdaysShort and monthsShort.
WeekdaysShort == << <<"S","u","n">>, <<"M","o","n">>, <<"T","u","e">>,
                    <<"W","e","d">>, <<"T","h","u">>, <<"F","r","i">>,
                    <<"S","a","t">> >>
MonthsShort == << <<"J","a","n">>, <<"F","e","b">>, <<"M","a","r">>,
                  <<"A","p","r">>, <<"M","a","y">>, <<"J","u","n">>,
                  <<"J","u","l">>, <<"A","u","g">>, <<"S","e","p">>,
                  <<"O","c","t">>, <<"N","o","v">>, <<"D","e","c">> >>

\* dayjs's padStart(2, "0") of a day of the month.
PadTwo(n) == << DigitChars[((n \div 10) % 10) + 1], DigitChars[(n % 10) + 1] >>

\* The format with mm, the minute, where MMM, the month, was meant.
FormatDddDDmm(t) ==
    LET days == DayOf(t)
        c    == CivilFromDays(days)
    IN  WeekdaysShort[DayOfWeek(days) + 1] \o PadTwo(c.day) \o PadTwo(t % TicksPerDay)

\* dayjs(t).format("dddDDMMM"): short weekday, two-digit day, short month.
FormatDddDDMMM(t) ==
    LET days == DayOf(t)
        c    == CivilFromDays(days)
    IN  WeekdaysShort[DayOfWeek(days) + 1] \o PadTwo(c.day) \o MonthsShort[c.month]

DotJson == <<".","j","s","o","n">>

\* The document key: dayjs().format("dddDDMMM").toLowerCase() + ".json".
dateString(t) == toLowerCase(FormatDddDDMMM(t)) \o DotJson

\* ------------------------------------------------------------ JSON values

\* A JSON value is [t, s, kids]: t its type, s its text (a string's or a
\* member's key, a number's or a literal's spelling), kids its children (an
\* array's items, an object's members, a member's one value).
JArr(items)   == [t |-> "array",   s |-> "", kids |-> items]
JObj(members) == [t |-> "object",  s |-> "", kids |-> members]
JMember(k, v) == [t |-> "member",  s |-> k,  kids |-> <<v>>]
JStr(x)       == [t |-> "string",  s |-> x,  kids |-> <<>>]
JLit(x)       == [t |-> "literal", s |-> x,  kids |-> <<>>]
\* A body that is not JSON: res.send(text), or content JSON.parse rejects.
JText(x)      == [t |-> "text",    s |-> x,  kids |-> <<>>]

\* JSON text is a sequence of tokens <<kind, text>>.
Punct(x) == <<"punct", x>>
Newline  == <<"ws", "\n">>
Space    == <<"ws", " ">>

\* The indent argument of JSON.stringify(req.body, null, 2).
Gap == 2

Indent(n) == [i \in 1..n |-> Space]

RECURSIVE SerializeValue(_, _), SerializeList(_, _, _)

\* JSON.stringify's SerializeJSONProperty with a gap: v at indentation ind.
SerializeValue(v, ind) ==
    CASE v.t = "array" ->
           IF v.kids = <<>> THEN <<Punct("["), Punct("]")>>
           ELSE <<Punct("[")>> \o SerializeList(v.kids, 1, ind + Gap)
                \o <<Newline>> \o Indent(ind) \o <<Punct("]")>>
      [] v.t = "object" ->
           IF v.kids = <<>> THEN <<Punct("{"), Punct("}")>>
           ELSE <<Punct("{")>> \o SerializeList(v.kids, 1, ind + Gap)
                \o <<Newline>> \o Indent(ind) \o <<Punct("}")>>
      [] v.t = "member" ->
           << <<"string", v.s>>, Punct(":"), Space >> \o SerializeValue(v.kids[1], ind)
      [] OTHER -> << <<v.t, v.s>> >>

\* The items or members kids[i..], each on a line of its own at indentation
\* ind, separated by commas.
SerializeList(kids, i, ind) ==
    IF i > Len(kids) THEN <<>>
    ELSE (IF i > 1 THEN <<Punct(",")>> ELSE <<>>)
         \o <<Newline>> \o Indent(ind) \o SerializeValue(kids[i], ind)
         \o SerializeList(kids, i + 1, ind)

\* JSON.stringify(value, null, 2).
JSONStringify(v) == SerializeValue(v, 0)

RECURSIVE SkipWs(_, _), ParseValue(_, _), ParseItems(_, _, _), ParseMembers(_, _, _)

\* The first position from i on that holds no whitespace.
SkipWs(toks, i) ==
    IF i <= Len(toks) /\ toks[i][1] = "ws" THEN SkipWs(toks, i + 1) ELSE i

ParseError == [ok |-> FALSE, v |-> JText("SyntaxError"), next |-> 0]

\* JSON.parse, one value from position i: [ok, v, next].
ParseValue(toks, i0) ==
    LET i == SkipWs(toks, i0) IN
    IF i > Len(toks) THEN ParseError
    ELSE LET tk == toks[i] IN
         CASE tk = Punct("[") ->
                LET j == SkipWs(toks, i + 1) IN
                IF j <= Len(toks) /\ toks[j] = Punct("]")
                THEN [ok |-> TRUE, v |-> JArr(<<>>), next |-> j + 1]
                ELSE ParseItems(toks, j, <<>>)
           [] tk = Punct("{") ->
                LET j == SkipWs(toks, i + 1) IN
                IF j <= Len(toks) /\ toks[j] = Punct("}")
                THEN [ok |-> TRUE, v |-> JObj(<<>>), next |-> j + 1]
                ELSE ParseMembers(toks, j, <<>>)
           [] tk[1] \in {"string", "number", "literal"} ->
                [ok |-> TRUE, v |-> [t |-> tk[1], s |-> tk[2], kids |-> <<>>],
                 next |-> i + 1]
           [] OTHER -> ParseError

\* The items of an array after its "[": a value, then "," or "]".
ParseItems(toks, i, acc) ==
    LET e == ParseValue(toks, i) IN
    IF ~e.ok THEN ParseError
    ELSE LET j == SkipWs(toks, e.next) IN
         IF j > Len(toks) THEN ParseError
         ELSE IF toks[j] = Punct(",") THEN ParseItems(toks, j + 1, Append(acc, e.v))
         ELSE IF toks[j] = Punct("]")
              THEN [ok |-> TRUE, v |-> JArr(Append(acc, e.v)), next |-> j + 1]
         ELSE ParseError

\* The members of an object after its "{": a key, ":", a value, then "," or "}".
ParseMembers(toks, i0, acc) ==
    LET i == SkipWs(toks, i0)
        c == SkipWs(toks, i + 1)
    IN
    IF c > Len(toks) \/ toks[i][1] # "string" \/ toks[c] # Punct(":") THEN ParseError
    ELSE LET e == ParseValue(toks, c + 1) IN
         IF ~e.ok THEN ParseError
         ELSE LET j == SkipWs(toks, e.next)
                  m == JMember(toks[i][2], e.v)
              IN
              IF j > Len(toks) THEN ParseError
              ELSE IF toks[j] = Punct(",") THEN ParseMembers(toks, j + 1, Append(acc, m))
              ELSE IF toks[j] = Punct("}")
                   THEN [ok |-> TRUE, v |-> JObj(Append(acc, m)), next |-> j + 1]
              ELSE ParseError

\* The data of a response whose body is text: gaxios parses it as JSON and
\* keeps the text when that fails.
ResponseData(toks) ==
    LET e == ParseValue(toks, 1) IN
    IF e.ok /\ SkipWs(toks, e.next) > Len(toks) THEN e.v ELSE JText("unparsed")

\* --------------------------------------------------------- the environment

\* Browser sessions (one signed cookie each), and the slots of the requests
\* in flight: two requests at a time.
Sessions == {"s1", "s2"}
Slots    == {1, 2}

\* process.env.GOOGLE_DRIVE_FOLDER_ID
FolderId == "folder"

\* The profile passport keeps in the session after the Google login of each
\* browser's account: the access token the strategy's verify callback adds,
\* and the account's e-mail addresses (the second account exposes none).
Profile(s) ==
    [accessToken |-> IF s = "s1" THEN "token-s1" ELSE "token-s2",
     emails      |-> IF s = "s1" THEN <<"s1@example.com">> ELSE <<>>]

\* The bodies a client posts to /api/todos.
Payloads ==
    { JObj(<<JMember("tasks", JArr(<<>>))>>),
      JArr(<<JObj(<<JMember("text", JStr("milk")),
                    JMember("done", JLit("false"))>>)>>) }

\* The first instant of the model's clock: the second half of 2023-12-30.
StartInstant == 19722 * TicksPerDay - 1

\* ---------------------------------------------------------------- responses

NoResp == [status |-> 0, body |-> JLit("none")]
\* res.json(x)
Json(x) == [status |-> 200, body |-> x]
\* res.status(401).json({ error: 'Not authenticated' })
NotAuthenticated ==
    [status |-> 401, body |-> JObj(<<JMember("error", JStr("Not authenticated"))>>)]
\* A 500 that carries the error's name to the caller.
ServerErrorWithDetail(text) ==
    [status |-> 500,
     body |-> JObj(<<JMember("error", JStr(text)), JMember("detail", JStr("GaxiosError"))>>)]

\* res.status(500).send(text)
ServerError(text) == [status |-> 500, body |-> JText(text)]
\* res.json({ success: true })
SaveOk == Json(JObj(<<JMember("success", JLit("true"))>>))
\* res.json({ message: "Reminder sent successfully" })
ReminderOk == Json(JObj(<<JMember("message", JStr("Reminder sent successfully"))>>))
\* res.status(500).json({ error: "Failed to send reminder" })
ReminderFailed ==
    [status |-> 500, body |-> JObj(<<JMember("error", JStr("Failed to send reminder"))>>)]

\* ------------------------------------------------------------------- state

VARIABLES
    now,      \* the wall clock, in instants
    session,  \* session[s]: when the browser's session cookie expires; 0: it names no user
    files,    \* the Drive files, in creation order: a file's id is its index
    req,      \* req[r]: the request in slot r and its handler's locals
    log,      \* log[r]: what the store and the mail relay did for slot r's request
    hist,     \* history: the keys Saves raced on or saved, the last Save alone
    obs       \* obs[r]: history of slot r's request, for stating the claims

vars == <<now, session, files, req, log, hist, obs>>

\* A remote call the handler issued: its operation, the credential of the
\* client it was made with, its arguments, and the result the handler saw.
Call(op, tok, fileId, meta, content) ==
    [op |-> op, tok |-> tok, fileId |-> fileId, meta |-> meta,
     content |-> content, result |-> "pending"]

\* The name, folder and type a call names: the q of a list, the resource of
\* a create.
Meta(name, parents, mimeType) ==
    [name |-> name, parents |-> parents, mimeType |-> mimeType]
NoMeta == Meta(<<>>, <<>>, "")

\* The reply to a call: ok or error, with the files a list found or the data a
\* download read.
Reply(state, found, data) == [state |-> state, files |-> found, data |-> data]
Failed == Reply("error", <<>>, <<>>)

\* A free slot.
IdleReq ==
    [kind |-> "none", user |-> "none", tok |-> "", key |-> <<>>,
     body |-> JObj(<<>>), pc |-> "idle", fileList |-> <<>>, calls |-> <<>>,
     resp |-> NoResp]

\* A Save that ran alone and succeeded: the day it arrived on, its body, and
\* how many files its list call found. NoSave: no such Save.
NoSave == [day |-> -1, body |-> JLit("none"), found |-> 0]

\* What is remembered of slot r's request: the Save a Fetch follows at once
\* (expect), whether a Save has overlapped no other Save (alone), whether,
\* while a Save awaited its create, another Save created a file of the same
\* key and responded with success (rivalOk), the day a Fetch or Save arrived
\* on (day), and whether the session held a logged-in user when the request
\* arrived (authed).
NoObs == [expect |-> NoSave, alone |-> FALSE, rivalOk |-> FALSE, day |-> -1,
          authed |-> FALSE]

\* The history at the start: the clock's first instant (start), the keys two
\* Saves overlapped on (raced), and the last Save that succeeded alone, with
\* no Save since, on the day it still is (lastSave).
NoHist(t) == [start |-> t, raced |-> {}, lastSave |-> NoSave]

InFlight(q) == q.pc \notin {"idle", "done", "hung"}

\* No answered request is waiting for its handler to return.
Quiet == \A r \in Slots : req[r].pc # "done"

\* The slot a new request takes: the lowest free one.
FreeSlot(r) ==
    /\ Quiet
    /\ req[r].pc = "idle"
    /\ \A q \in Slots : q < r => req[q].pc # "idle"

\* Slot r's handler of kind awaits one of the calls ops.
AwaitsIn(r, kind, ops) == Quiet /\ req[r].kind = kind /\ req[r].pc \in ops

TypeOK ==
    /\ now \in hist.start..(hist.start + MaxTicks)
    /\ \A s \in Sessions : session[s] \in Nat
    /\ Len(files) <= MaxFiles
    /\ \A r \in Slots : req[r].pc \in
         {"idle", "list", "get", "update", "create", "send", "done", "hung"}

Init ==
    /\ now = StartInstant
    /\ session = [s \in Sessions |-> 0]
    /\ files = <<>>
    /\ req = [r \in Slots |-> IdleReq]
    /\ log = [r \in Slots |-> <<>>]
    /\ hist = NoHist(now)
    /\ obs = [r \in Slots |-> NoObs]

\* ----------------------------------------------------- clock and sessions

\* maxAge: 24 * 60 * 60 * 1000 ms, one day of instants.
maxAge == TicksPerDay

\* A cookie that lasts a week.
CookieExpiresInAWeek(t) == t + 7 * maxAge

\* The expiry of a session cookie set at the instant t.
CookieExpires(t) == t + maxAge

\* The browser holds an unexpired session cookie that names a user.
LoggedIn(s) == session[s] # 0 /\ now < session[s]

\* Time passes, for at most max instants.
Elapse(max) ==
    /\ Quiet
    /\ now < hist.start + max
    /\ now' = now + 1
    /\ hist' = [hist EXCEPT
          !.lastSave = IF DayOf(now + 1) = DayOf(now) THEN @ ELSE NoSave]
    /\ UNCHANGED <<session, files, req, log, obs>>

Tick == Elapse(MaxTicks)

\* GET /auth/google/callback after a successful Google login: passport stores
\* the profile in the session, cookie-session sets the cookie with its
\* maxAge, and the browser is sent to /dashboard.
Login(s) ==
    /\ Quiet
    /\ ~LoggedIn(s)
    /\ session' = [session EXCEPT ![s] = CookieExpires(now)]
    /\ UNCHANGED <<now, files, req, log, hist, obs>>

\* GET /auth/logout: req.logout() removes the user from the session.
Logout(s) ==
    /\ Quiet
    /\ LoggedIn(s)
    /\ session' = [session EXCEPT ![s] = 0]
    /\ UNCHANGED <<now, files, req, log, hist, obs>>

\* The method tested and not called: a function is always truthy.
isAuthenticatedUncalled(s) == TRUE

\* A clock read once, when the process started.
dayjsAtStartup == hist.start

\* dayjs(): the instant of the call.
dayjs == now

\* req.isAuthenticated(): the cookie the browser sent names a user. A browser
\* sends no expired cookie.
isAuthenticated(s) == session[s] # 0 /\ now < session[s]

\* One client for the whole process, built with the first user's token.
getDriveClientShared(accessToken) == Profile("s1").accessToken

\* getDriveClient(accessToken): a client that sends accessToken with its calls.
getDriveClient(accessToken) == accessToken

\* ------------------------------------------------------------ the Drive API

\* The files a list call's q selects: name='...' and '...' in parents.
Matching(meta) ==
    {i \in 1..Len(files) :
        /\ files[i].name = meta.name
        /\ \E p \in 1..Len(meta.parents) :
             \E k \in 1..Len(files[i].parents) : files[i].parents[k] = meta.parents[p]}

\* The orders a listing of the files S can come in: the call names no orderBy.
Orders(S) ==
    {o \in [1..Cardinality(S) -> S] : \A i, j \in 1..Cardinality(S) : o[i] = o[j] => i = j}

\* drive.files.list: the matching files in some order, or an error.
ListReplies(c) == {Reply("ok", o, <<>>) : o \in Orders(Matching(c.meta))} \cup {Failed}

\* drive.files.get with alt=media: the file's content, or an error.
GetReplies(c) == {Reply("ok", <<>>, files[c.fileId].content), Failed}

\* The outcomes of a write: the store applies it and the reply arrives ("ok");
\* the store refuses it, or it never arrives, and the call fails with nothing
\* applied ("refused"); the store applies it and the reply is lost on the way
\* back, so the call fails all the same ("lost"). A full folder refuses a
\* create.
WriteOutcomes(c) ==
    IF c.op = "create" /\ Len(files) >= MaxFiles THEN {"refused"}
    ELSE {"ok", "refused", "lost"}

WriteReply(outcome) == IF outcome = "ok" THEN Reply("ok", <<>>, <<>>) ELSE Failed

\* The id the store gives a new file.
NewFileId == Len(files) + 1

\* A store that keeps names unique: a create of a name that exists replaces
\* that file's content.
WrittenUniqueName(c) ==
    IF c.op = "update"
    THEN [files EXCEPT ![c.fileId].content = c.content]
    ELSE IF \E i \in 1..Len(files) : files[i].name = c.meta.name
    THEN [i \in 1..Len(files) |->
            IF files[i].name = c.meta.name
            THEN [files[i] EXCEPT !.content = c.content] ELSE files[i]]
    ELSE Append(files, [name |-> c.meta.name, parents |-> c.meta.parents,
                        mimeType |-> c.meta.mimeType, content |-> c.content])

\* A store whose update appends to the content it holds.
WrittenAppending(c) ==
    IF c.op = "update"
    THEN [files EXCEPT ![c.fileId].content = @ \o c.content]
    ELSE Append(files, [name |-> c.meta.name, parents |-> c.meta.parents,
                        mimeType |-> c.meta.mimeType, content |-> c.content])

\* The folder after the store applied the write c: drive.files.update
\* replaces the file's content whole, drive.files.create adds a file.
Written(c) ==
    IF c.op = "update"
    THEN [files EXCEPT ![c.fileId].content = c.content]
    ELSE Append(files, [name |-> c.meta.name, parents |-> c.meta.parents,
                        mimeType |-> c.meta.mimeType, content |-> c.content])

\* transporter.sendMail: the relay accepts the message, or it does not.
MailReplies == {Reply("ok", <<>>, <<>>), Failed}

\* What the store (or the relay) records of a call it carried out.
Served(c, fileId, content) ==
    [op |-> c.op, tok |-> c.tok, fileId |-> fileId, content |-> content]

\* ------------------------------------------------------------ the handlers

\* The call slot r's handler awaits.
Awaited(r) == req[r].calls[Len(req[r].calls)]

\* The calls of slot r, the awaited one with the result the handler saw.
Seen(r, reply) == [req[r].calls EXCEPT ![Len(req[r].calls)].result = reply.state]

\* A request arrives: its record before the route's middleware ran.
Arrived(kind, s, body) == [IdleReq EXCEPT !.kind = kind, !.user = s, !.body = body]

\* isAuthenticated's refusal: res.status(401).json(...), next() is not called.
Refused(q) == [q EXCEPT !.pc = "done", !.resp = NotAuthenticated]

\* A handler that issues the call again when it failed.
RespondsOrRetries(r, reply, resp) ==
    IF reply.state = "error"
    THEN req' = [req EXCEPT ![r].calls = Append(Seen(r, reply), Awaited(r))]
    ELSE req' = [req EXCEPT ![r].pc = "done", ![r].calls = Seen(r, reply), ![r].resp = resp]

\* The handler's response ends the request.
Responds(r, reply, resp) ==
    req' = [req EXCEPT ![r].pc = "done", ![r].calls = Seen(r, reply), ![r].resp = resp]

\* The handler issues its next call and awaits it.
Awaits(r, reply, call) ==
    req' = [req EXCEPT ![r].pc = call.op, ![r].fileList = reply.files,
                       ![r].calls = Append(Seen(r, reply), call)]

\* A list call that asks for the key without its extension.
ListCallNoExtension(tok, name) ==
    Call("list", tok, 0, Meta(SubSeq(name, 1, Len(name) - Len(DotJson)), <<FolderId>>, ""), <<>>)

\* The list call both routes start with: files of the day's name in the folder.
ListCall(tok, name) == Call("list", tok, 0, Meta(name, <<FolderId>>, ""), <<>>)

\* GET /api/todos up to its first await: isAuthenticated, then the Drive
\* client, the day's key and the list call.
GetTodos(r, s) ==
    /\ FreeSlot(r)
    /\ LET q == Arrived("fetch", s, JObj(<<>>))
           drive == getDriveClient(Profile(s).accessToken)
       IN  IF ~isAuthenticated(s)
           THEN /\ req' = [req EXCEPT ![r] = Refused(q)]
                /\ obs' = [obs EXCEPT ![r] = NoObs]
           ELSE /\ req' = [req EXCEPT ![r] =
                      [q EXCEPT !.tok = drive, !.key = dateString(dayjs), !.pc = "list",
                                !.calls = <<ListCall(drive, dateString(dayjs))>>]]
                /\ obs' = [obs EXCEPT ![r] =
                      [NoObs EXCEPT !.day = DayOf(now), !.authed = LoggedIn(s),
                                    !.expect = IF hist.lastSave.day = DayOf(now)
                                               THEN hist.lastSave ELSE NoSave]]
    /\ log' = [log EXCEPT ![r] = <<>>]
    /\ UNCHANGED <<now, session, files, hist>>

\* The last file listed and not the first.
FetchLastFileId(found) == found[Len(found)]

\* fileList.data.files[0].id: the file a Fetch downloads.
FetchFileId(found) == found[1]

\* A missing document reported as an error.
NoTodosNotFound == [status |-> 404, body |-> JText("Not found")]

\* res.json([]): the response when the day has no file.
NoTodos == Json(JArr(<<>>))

\* A Fetch that makes the day's file when it finds none.
GetTodosListedCreating(r) ==
    /\ AwaitsIn(r, "fetch", {"list"})
    /\ \E reply \in ListReplies(Awaited(r)) :
         /\ IF reply.state = "error"
            THEN Responds(r, reply, ServerError("Error fetching todos")) /\ UNCHANGED files
            ELSE IF Len(reply.files) = 0
            THEN /\ Responds(r, reply, NoTodos)
                 /\ files' = IF Len(files) >= MaxFiles THEN files
                             ELSE Append(files, [name |-> req[r].key, parents |-> <<FolderId>>,
                                                 mimeType |-> "application/json",
                                                 content |-> JSONStringify(JArr(<<>>))])
            ELSE /\ Awaits(r, reply, Call("get", req[r].tok, FetchFileId(reply.files),
                                          NoMeta, <<>>))
                 /\ UNCHANGED files
         /\ log' = [log EXCEPT ![r] =
               IF reply.state = "ok" THEN Append(@, Served(Awaited(r), 0, <<>>)) ELSE @]
    /\ UNCHANGED <<now, session, hist, obs>>

\* GET /api/todos from the list call's completion: nothing found is an empty
\* list; else the first file listed is downloaded.
GetTodosListed(r) ==
    /\ AwaitsIn(r, "fetch", {"list"})
    /\ \E reply \in ListReplies(Awaited(r)) :
         /\ IF reply.state = "error"
            THEN Responds(r, reply, ServerError("Error fetching todos"))
            ELSE IF Len(reply.files) = 0
            THEN Responds(r, reply, NoTodos)
            ELSE Awaits(r, reply, Call("get", req[r].tok, FetchFileId(reply.files),
                                       NoMeta, <<>>))
         /\ log' = [log EXCEPT ![r] =
               IF reply.state = "ok" THEN Append(@, Served(Awaited(r), 0, <<>>)) ELSE @]
    /\ UNCHANGED <<now, session, files, hist, obs>>

\* GET /api/todos from the download's completion: the file's data is the
\* response.
GetTodosGot(r) ==
    /\ AwaitsIn(r, "fetch", {"get"})
    /\ \E reply \in GetReplies(Awaited(r)) :
         /\ IF reply.state = "error"
            THEN Responds(r, reply, ServerError("Error fetching todos"))
            ELSE Responds(r, reply, Json(ResponseData(reply.data)))
         /\ log' = [log EXCEPT ![r] =
               IF reply.state = "ok"
               THEN Append(@, Served(Awaited(r), Awaited(r).fileId, reply.data)) ELSE @]
    /\ UNCHANGED <<now, session, files, hist, obs>>

\* The Saves in flight other than slot r's.
OtherSaves(r) == {q \in Slots \ {r} : req[q].kind = "save" /\ InFlight(req[q])}

\* POST /api/todos up to its first await: isAuthenticated, then the Drive
\* client, the day's key and the list call.
PostTodos(r, s, body) ==
    /\ FreeSlot(r)
    /\ LET q == Arrived("save", s, body)
           drive == getDriveClient(Profile(s).accessToken)
           key == dateString(dayjs)
       IN  IF ~isAuthenticated(s)
           THEN /\ req' = [req EXCEPT ![r] = Refused(q)]
                /\ obs' = [obs EXCEPT ![r] = NoObs]
                /\ UNCHANGED hist
           ELSE /\ req' = [req EXCEPT ![r] =
                      [q EXCEPT !.tok = drive, !.key = key, !.pc = "list",
                                !.calls = <<ListCall(drive, key)>>]]
                /\ obs' = [o \in Slots |->
                      IF o = r
                      THEN [NoObs EXCEPT !.alone = (OtherSaves(r) = {}),
                                         !.day = DayOf(now), !.authed = LoggedIn(s)]
                      ELSE [obs[o] EXCEPT !.alone = FALSE, !.expect = NoSave]]
                /\ hist' = [hist EXCEPT
                      !.lastSave = NoSave,
                      !.raced = IF \E o \in OtherSaves(r) : req[o].key = key
                                THEN @ \cup {key} ELSE @]
    /\ log' = [log EXCEPT ![r] = <<>>]
    /\ UNCHANGED <<now, session, files>>

\* A resource named with the key of the instant of the create.
fileMetadataOfNow(key) == Meta(dateString(dayjs), <<FolderId>>, "application/json")

\* A resource with no mimeType of its own: the store takes the file for text.
fileMetadataUntyped(key) == Meta(key, <<FolderId>>, "text/plain")

\* The resource of a create: { name, parents, mimeType }.
fileMetadata(key) == Meta(key, <<FolderId>>, "application/json")

\* The media of a request whose body was never parsed: req.body is {}.
mediaUnparsed(body) == [mimeType |-> "application/json", body |-> JSONStringify(JObj(<<>>))]

\* The media of a write: { mimeType, body }.
media(body) == [mimeType |-> "application/json", body |-> JSONStringify(body)]

\* The last file listed and not the first.
UpdateLastFileId(found) == found[Len(found)]

\* fileList.data.files[0].id: the file a Save updates.
UpdateFileId(found) == found[1]

\* POST /api/todos from the list call's completion: the first file listed is
\* updated, or, nothing found, a file is created.
PostTodosListed(r) ==
    /\ AwaitsIn(r, "save", {"list"})
    /\ \E reply \in ListReplies(Awaited(r)) :
         /\ IF reply.state = "error"
            THEN Responds(r, reply, ServerError("Error saving todos"))
            ELSE IF Len(reply.files) > 0
            THEN Awaits(r, reply, Call("update", req[r].tok, UpdateFileId(reply.files),
                                       NoMeta, media(req[r].body).body))
            ELSE Awaits(r, reply, Call("create", req[r].tok, 0, fileMetadata(req[r].key),
                                       media(req[r].body).body))
         /\ log' = [log EXCEPT ![r] =
               IF reply.state = "ok" THEN Append(@, Served(Awaited(r), 0, <<>>)) ELSE @]
    /\ UNCHANGED <<now, session, files, hist, obs>>

\* POST /api/todos from its write's completion: { success: true }, or the
\* catch's 500.
PostTodosWritten(r) ==
    /\ AwaitsIn(r, "save", {"update", "create"})
    /\ \E outcome \in WriteOutcomes(Awaited(r)) :
         /\ IF outcome = "refused"
            THEN UNCHANGED <<files, log>>
            ELSE /\ files' = Written(Awaited(r))
                 /\ log' = [log EXCEPT ![r] =
                       Append(@, Served(Awaited(r),
                                        IF Awaited(r).op = "update"
                                        THEN Awaited(r).fileId ELSE NewFileId,
                                        Awaited(r).content))]
         /\ IF WriteReply(outcome).state = "error"
            THEN /\ Responds(r, WriteReply(outcome), ServerError("Error saving todos"))
                 /\ UNCHANGED <<hist, obs>>
            ELSE /\ Responds(r, WriteReply(outcome), SaveOk)
                 /\ hist' = [hist EXCEPT
                       !.lastSave = IF obs[r].alone /\ obs[r].day = DayOf(now)
                                    THEN [day |-> obs[r].day, body |-> req[r].body,
                                          found |-> Len(req[r].fileList)]
                                    ELSE NoSave]
                 /\ obs' = [o \in Slots |->
                       IF /\ o # r /\ Awaited(r).op = "create"
                          /\ req[o].kind = "save" /\ req[o].pc = "create"
                          /\ req[o].key = req[r].key
                       THEN [obs[o] EXCEPT !.rivalOk = TRUE] ELSE obs[o]]
    /\ UNCHANGED <<now, session>>

\* The body of a reminder request: { taskName, dueDate, priority, taskId }.
ReminderBody ==
    JObj(<<JMember("taskName", JStr("shop")), JMember("dueDate", JStr("2023-12-31")),
           JMember("priority", JStr("high")), JMember("taskId", JStr("7"))>>)

\* What becomes of a request whose async handler threw outside any try, by
\* the Express the build installs: Express 4 never learns that the handler's
\* promise rejected, and nothing answers the request; Express 5 hands the
\* rejection to its error handler, which answers 500.
Rejected(q) ==
    {[q EXCEPT !.pc = "hung"],
     [q EXCEPT !.pc = "done", !.resp = ServerError("Internal Server Error")]}

\* POST /api/send-reminder up to its await: isAuthenticated, the recipient
\* from req.user.emails[0].value, then sendTaskReminder's sendMail. A profile
\* with no e-mail address makes emails[0].value throw before the try: the
\* handler's promise rejects.
SendReminder(r, s) ==
    /\ FreeSlot(r)
    /\ LET q == Arrived("remind", s, ReminderBody) IN
       IF ~isAuthenticated(s)
       THEN req' = [req EXCEPT ![r] = Refused(q)]
       ELSE IF Len(Profile(s).emails) = 0
       THEN \E x \in Rejected(q) : req' = [req EXCEPT ![r] = x]
       ELSE req' = [req EXCEPT ![r] =
               [q EXCEPT !.pc = "send",
                         !.calls = <<Call("send", "", 0,
                                          Meta(Profile(s).emails[1], <<>>, ""), <<>>)>>]]
    /\ log' = [log EXCEPT ![r] = <<>>]
    /\ obs' = [obs EXCEPT ![r] = [NoObs EXCEPT !.authed = LoggedIn(s)]]
    /\ UNCHANGED <<now, session, files, hist>>

\* A sendTaskReminder whose catch returns true as well.
sendTaskReminderAlwaysTrue(reply) == TRUE

\* sendTaskReminder from sendMail's completion: true when the relay took the
\* message, false from the catch.
sendTaskReminder(reply) == reply.state = "ok"

\* POST /api/send-reminder from sendMail's completion: { message }, or a 500.
SendReminderSent(r) ==
    /\ AwaitsIn(r, "remind", {"send"})
    /\ \E reply \in MailReplies :
         /\ IF sendTaskReminder(reply)
            THEN Responds(r, reply, ReminderOk)
            ELSE Responds(r, reply, ReminderFailed)
         /\ log' = [log EXCEPT ![r] =
               IF reply.state = "ok" THEN Append(@, Served(Awaited(r), 0, <<>>)) ELSE @]
    /\ UNCHANGED <<now, session, files, hist, obs>>

\* The handler returns after its response: the request and its locals are
\* gone and the slot is free. The answered request is kept for this one step
\* only, which nothing else interleaves with (every other action waits for
\* Quiet): it is no state of the program.
Return(r) ==
    /\ req[r].pc = "done"
    /\ req' = [req EXCEPT ![r] = IdleReq]
    /\ log' = [log EXCEPT ![r] = <<>>]
    /\ obs' = [obs EXCEPT ![r] = NoObs]
    /\ UNCHANGED <<now, session, files, hist>>

\* -------------------------------------------------------- the specification

\* A request of one of the sessions S arrives, a Save with a body of P.
Arrival(S, P) ==
    \E r \in Slots, s \in S :
       \/ GetTodos(r, s)
       \/ SendReminder(r, s)
       \/ \E body \in P : PostTodos(r, s, body)

\* A remote call completes and its handler runs on.
Completion ==
    \E r \in Slots :
       \/ GetTodosListed(r) \/ GetTodosGot(r)
       \/ PostTodosListed(r) \/ PostTodosWritten(r)
       \/ SendReminderSent(r)

\* One browser, whose account has an e-mail address, and its requests.
Next ==
    \/ Tick
    \/ Login("s1") \/ Logout("s1")
    \/ Arrival({"s1"}, Payloads)
    \/ Completion
    \/ \E r \in Slots : Return(r)

Spec == Init /\ [][Next]_vars

\* The key deriver on its own: the clock starts at any instant of KeySpan
\* around StartInstant, in a logged-in session, and requests arrive and
\* derive their keys as time passes.
KeyInit ==
    /\ now \in (StartInstant - KeySpan)..(StartInstant + KeySpan)
    /\ session = [s \in Sessions |-> IF s = "s1" THEN CookieExpires(now) ELSE 0]
    /\ files = <<>>
    /\ req = [r \in Slots |-> IdleReq]
    /\ log = [r \in Slots |-> <<>>]
    /\ hist = NoHist(now)
    /\ obs = [r \in Slots |-> NoObs]

KeyNext ==
    \/ Tick
    \/ \E r \in Slots :
         \/ GetTodos(r, "s1")
         \/ \E body \in Payloads : PostTodos(r, "s1", body)

KeySpec == KeyInit /\ [][KeyNext]_vars

\* Years of idle time: the process stays up and the folder is kept.
FiveYears == 5 * 365 + 2
SixYears == 6 * 365 + 2
LongSleeps == {FiveYears, SixYears}

\* d days pass with no request in flight.
DaysPass(d) ==
    /\ \A r \in Slots : req[r].pc = "idle"
    /\ DayOf(now) = DayOf(hist.start)
    /\ now' = now + d * TicksPerDay
    /\ UNCHANGED <<session, files, req, log, hist, obs>>

\* The folder over the years: one browser saves and fetches, years pass
\* between its requests and it logs in again.
YearsInit ==
    /\ now = StartInstant
    /\ session = [s \in Sessions |-> IF s = "s1" THEN CookieExpires(now) ELSE 0]
    /\ files = <<>>
    /\ req = [r \in Slots |-> IdleReq]
    /\ log = [r \in Slots |-> <<>>]
    /\ hist = NoHist(now)
    /\ obs = [r \in Slots |-> NoObs]

YearsNext ==
    \/ \E d \in LongSleeps : DaysPass(d)
    \/ Login("s1")
    \/ \E r \in Slots :
         \/ GetTodos(r, "s1")
         \/ \E body \in Payloads : PostTodos(r, "s1", body)
         \/ GetTodosListed(r) \/ GetTodosGot(r)
         \/ PostTodosListed(r) \/ PostTodosWritten(r)
         \/ Return(r)

YearsSpec == YearsInit /\ [][YearsNext]_vars

\* One browser over more than a session's lifetime: it logs in and out, its
\* cookie expires, and its requests arrive all the while.
SessionNext ==
    \/ Elapse(maxAge + 1)
    \/ Login("s1") \/ Logout("s1")
    \/ Arrival({"s1"}, {JArr(<<>>)})
    \/ Completion
    \/ \E r \in Slots : Return(r)

SessionSpec == Init /\ [][SessionNext]_vars

\* Two browsers, both logged in, whose Fetches and Saves overlap.
TwoInit ==
    /\ now = StartInstant
    /\ session = [s \in Sessions |-> CookieExpires(now)]
    /\ files = <<>>
    /\ req = [r \in Slots |-> IdleReq]
    /\ log = [r \in Slots |-> <<>>]
    /\ hist = NoHist(now)
    /\ obs = [r \in Slots |-> NoObs]

TwoNext ==
    \/ \E r \in Slots, s \in Sessions :
          \/ GetTodos(r, s)
          \/ \E body \in Payloads : PostTodos(r, s, body)
    \/ \E r \in Slots :
          \/ GetTodosListed(r) \/ GetTodosGot(r)
          \/ PostTodosListed(r) \/ PostTodosWritten(r)
          \/ Return(r)

TwoSpec == TwoInit /\ [][TwoNext]_vars

\* Two browsers, logged in at first, and their requests, where every remote
\* call and every mail send returns or fails in the end and every handler
\* that has responded returns.
LiveNext ==
    \/ \E s \in Sessions : Logout(s)
    \/ Arrival(Sessions, {JArr(<<>>)})
    \/ Completion
    \/ \E r \in Slots : Return(r)

LiveSpec ==
    /\ TwoInit /\ [][LiveNext]_vars
    /\ \A r \in Slots :
          /\ SF_vars(GetTodosListed(r)) /\ SF_vars(GetTodosGot(r))
          /\ SF_vars(PostTodosListed(r)) /\ SF_vars(PostTodosWritten(r))
          /\ SF_vars(SendReminderSent(r))
          /\ WF_vars(Return(r))

\* ------------------------------------------------------------------ claims

\* The request in slot r has been answered.
Answered(r, kind) == req[r].kind = kind /\ req[r].pc = "done"

\* Every call slot r's handler made completed without an error.
AllOk(r) == \A i \in 1..Len(req[r].calls) : req[r].calls[i].result = "ok"

\* The operations slot r's handler has called, in order.
Ops(r) == [i \in 1..Len(req[r].calls) |-> req[r].calls[i].op]

\* The files named name.
Named(name) == {i \in 1..Len(files) : files[i].name = name}

\* The writes the store applied for slot r's request.
Writes(r) == {i \in 1..Len(log[r]) : log[r][i].op \in {"update", "create"}}

\* C1 as stated: a Fetch that follows, on the same day, a Save that succeeded
\* with no other Save overlapping it or in between, and whose own calls
\* succeed, responds with exactly the body saved, whatever the folder held.
RoundTripAnyFolder ==
    \A r \in Slots :
       (Answered(r, "fetch") /\ obs[r].expect # NoSave /\ AllOk(r))
          => req[r].resp = Json(obs[r].expect.body)

\* C1 amended: the same, provided the Save's list call found at most one file
\* of the day's key (none: the create path; one: the update path).
RoundTrip ==
    \A r \in Slots :
       (Answered(r, "fetch") /\ obs[r].expect # NoSave /\ AllOk(r)
          /\ obs[r].expect.found <= 1)
          => req[r].resp = Json(obs[r].expect.body)

\* A Fetch returns the body of the Save before it, which updated the one file
\* of the day.
RoundTripWitness ==
    \E r \in Slots :
       /\ Answered(r, "fetch") /\ AllOk(r)
       /\ obs[r].expect # NoSave /\ obs[r].expect.found = 1
       /\ req[r].resp = Json(obs[r].expect.body)

\* C2: as long as no two Saves of a key have overlapped, the folder holds at
\* most one file of that key, no Save awaits a create while a file of its key
\* exists (a Save that comes after another is an update), and a Save that
\* succeeded leaves exactly one.
SequentialSavesNeverDuplicate ==
    /\ \A i, j \in 1..Len(files) :
          (files[i].name = files[j].name /\ files[i].name \notin hist.raced) => i = j
    /\ \A r \in Slots :
          (req[r].kind = "save" /\ req[r].key \notin hist.raced)
             => /\ req[r].pc = "create" => Named(req[r].key) = {}
                /\ (req[r].pc = "done" /\ req[r].resp = SaveOk)
                      => Cardinality(Named(req[r].key)) = 1

\* A Save has updated the one file of its key, which an earlier Save created,
\* and no two Saves have ever overlapped.
SequentialSavesWitness ==
    \E r \in Slots :
       /\ Answered(r, "save") /\ req[r].resp = SaveOk
       /\ Ops(r) = <<"list", "update">>
       /\ hist.raced = {}
       /\ Cardinality(Named(req[r].key)) = 1

\* C3: Save is not atomic. A Save issues a create exactly when its own list
\* call returned no match, whatever another Save has done since; so when two
\* Saves of one key were both listed no file before either wrote, both
\* create, and once both have responded with success the folder holds two
\* files of that name. The interleaving itself is SaveRaceWitness.
SaveRaceDuplicates ==
    \A r \in Slots :
       /\ (req[r].kind = "save" /\ req[r].pc = "create")
             => /\ req[r].fileList = <<>>
                /\ req[r].calls[1].op = "list" /\ req[r].calls[1].result = "ok"
       /\ (req[r].kind = "save" /\ req[r].pc = "update") => req[r].fileList # <<>>
       /\ (Answered(r, "save") /\ req[r].resp = SaveOk
             /\ Ops(r) = <<"list", "create">> /\ obs[r].rivalOk)
             => /\ Cardinality(Named(req[r].key)) >= 2
                /\ req[r].key \in hist.raced

\* Two Saves of one key both found no file and both created one: the second
\* responds with success, the first did while the second awaited its create,
\* and the folder holds two files of the same name.
SaveRaceWitness ==
    \E r \in Slots :
       /\ Answered(r, "save") /\ req[r].resp = SaveOk
       /\ Ops(r) = <<"list", "create">> /\ req[r].fileList = <<>>
       /\ obs[r].rivalOk
       /\ Cardinality(Named(req[r].key)) = 2

\* C4: a Fetch whose list call found files and whose calls succeed downloads
\* the first file listed, and only that one, and responds, with no error,
\* with that file's content as the store served it.
FetchTakesFirstListed ==
    \A r \in Slots :
       (req[r].kind = "fetch" /\ Len(req[r].calls) > 1)
          => /\ Len(req[r].calls) = 2
             /\ req[r].calls[2].op = "get"
             /\ req[r].calls[2].fileId = req[r].fileList[1]
             /\ (req[r].pc = "done" /\ AllOk(r))
                   => /\ Len(log[r]) = 2
                      /\ log[r][2].op = "get"
                      /\ log[r][2].fileId = req[r].fileList[1]
                      /\ req[r].resp = Json(ResponseData(log[r][2].content))

\* A Fetch was listed two files of the day's key, the newer one first, and
\* responded with the newer one's content, which differs from the older's.
FetchDuplicatesWitness ==
    \E r \in Slots :
       /\ Answered(r, "fetch") /\ AllOk(r)
       /\ req[r].fileList = <<2, 1>>
       /\ files[1].content # files[2].content
       /\ req[r].resp = Json(ResponseData(files[2].content))

\* C5: a Fetch whose list call succeeds and finds no file responds 200 with
\* the empty list and makes no other call: the store served the list only.
FetchMissingIsEmpty ==
    \A r \in Slots :
       (Answered(r, "fetch") /\ obs[r].authed
          /\ req[r].calls[1].result = "ok" /\ req[r].fileList = <<>>)
          => /\ req[r].resp = [status |-> 200, body |-> JArr(<<>>)]
             /\ Ops(r) = <<"list">>
             /\ Len(log[r]) = 1 /\ log[r][1].op = "list"

\* A Fetch found no file of the day's key and was answered with the empty
\* list.
FetchMissingWitness ==
    \E r \in Slots :
       /\ Answered(r, "fetch") /\ obs[r].authed
       /\ req[r].calls[1].result = "ok" /\ req[r].fileList = <<>>
       /\ Named(req[r].key) = {}
       /\ req[r].resp.status = 200

\* C6: a request that arrives on a session-required route with no logged-in
\* user in its session is answered 401 {error: "Not authenticated"} at once;
\* its handler makes no call, and the store and the mail relay do nothing
\* for it.
AuthenticationGate ==
    \A r \in Slots :
       (req[r].kind \in {"fetch", "save", "remind"} /\ ~obs[r].authed)
          => /\ req[r].pc = "done"
             /\ req[r].resp =
                   [status |-> 401,
                    body |-> JObj(<<JMember("error", JStr("Not authenticated"))>>)]
             /\ req[r].calls = <<>>
             /\ log[r] = <<>>

\* A Save arrived without a logged-in user, while the folder held a file, and
\* was answered 401.
AuthenticationGateWitness ==
    \E r \in Slots :
       /\ Answered(r, "save") /\ ~obs[r].authed
       /\ req[r].resp.status = 401
       /\ Len(files) > 0

\* The fixed body of a route's 500.
FixedError(kind) ==
    [status |-> 500,
     body |-> JText(IF kind = "fetch" THEN "Error fetching todos" ELSE "Error saving todos")]

\* C7: a Fetch or Save one of whose remote calls failed responds 500 with the
\* route's fixed text; and a Save responds {success: true} only after its
\* list call and then its one create or update both completed without an
\* error.
RemoteFailureIs500 ==
    \A r \in Slots :
       (req[r].kind \in {"fetch", "save"} /\ req[r].pc = "done" /\ obs[r].authed)
          => /\ ~AllOk(r) => req[r].resp = FixedError(req[r].kind)
             /\ (req[r].kind = "save" /\ req[r].resp.status = 200)
                   => /\ Ops(r) \in {<<"list", "create">>, <<"list", "update">>}
                      /\ AllOk(r)
                      /\ Len(log[r]) = 2 /\ log[r][2].op = Ops(r)[2]
             /\ req[r].resp.status \in {200, 500}

\* A Save whose list call succeeded and whose write failed was answered 500.
RemoteFailureWitness ==
    \E r \in Slots :
       /\ Answered(r, "save")
       /\ Len(req[r].calls) = 2 /\ req[r].calls[2].result = "error"
       /\ req[r].resp.status = 500

\* The one write of a Save that the store applied put the whole body, as
\* JSON text, in the file it names, and nothing has changed it since.
WroteWhole(r) ==
    /\ Cardinality(Writes(r)) = 1
    /\ \A i \in Writes(r) :
          /\ log[r][i].content = JSONStringify(req[r].body)
          /\ log[r][i].fileId \in 1..Len(files)
          /\ files[log[r][i].fileId].content = log[r][i].content
          /\ files[log[r][i].fileId].name = req[r].key

\* C8 as stated: a Save that was answered either succeeded, with the whole
\* body in the file it wrote, or was answered 500 and the store applied no
\* write of it.
SaveAllOrNothing ==
    \A r \in Slots :
       (Answered(r, "save") /\ obs[r].authed)
          => \/ req[r].resp = SaveOk /\ WroteWhole(r)
             \/ req[r].resp.status = 500 /\ Writes(r) = {}

\* C8 amended: a Save answered with success has its whole body in the file it
\* wrote; a Save answered 500 changed nothing when its list call failed or
\* the store refused its write, and otherwise its one write was applied
\* whole and only the call's reply failed. No write is ever applied in part.
SaveWholeOrUnacknowledged ==
    \A r \in Slots :
       (Answered(r, "save") /\ obs[r].authed)
          => \/ req[r].resp = SaveOk /\ WroteWhole(r)
             \/ /\ req[r].resp.status = 500
                /\ \/ Writes(r) = {}
                   \/ /\ WroteWhole(r)
                      /\ Len(req[r].calls) = 2 /\ req[r].calls[2].result = "error"

\* A Save is answered 500 although the store applied its update.
SaveUnacknowledgedWitness ==
    \E r \in Slots :
       /\ Answered(r, "save") /\ req[r].resp.status = 500
       /\ Ops(r) = <<"list", "update">>
       /\ WroteWhole(r)

\* C9: an authenticated send-reminder whose message the relay accepted
\* responds 200 {message}; one whose sendMail failed responds 500
\* {error: "Failed to send reminder"}.
ReminderFollowsTransport ==
    \A r \in Slots :
       (Answered(r, "remind") /\ obs[r].authed)
          => /\ Ops(r) = <<"send">>
             /\ req[r].calls[1].result = "ok"
                   => /\ req[r].resp.status = 200
                      /\ req[r].resp.body.t = "object"
                      /\ req[r].resp.body.kids[1].s = "message"
                      /\ Len(log[r]) = 1
             /\ req[r].calls[1].result = "error"
                   => /\ req[r].resp =
                            [status |-> 500,
                             body |-> JObj(<<JMember("error",
                                                     JStr("Failed to send reminder"))>>)]
                      /\ log[r] = <<>>

\* The relay rejected a reminder and the request was answered 500.
ReminderRejectedWitness ==
    \E r \in Slots :
       /\ Answered(r, "remind") /\ obs[r].authed
       /\ req[r].calls[1].result = "error"
       /\ req[r].resp.status = 500

\* The characters of a sequence.
Chars(seq) == {seq[i] : i \in 1..Len(seq)}

\* C10: the key is a lower-cased weekday, a two-digit day and a month name
\* followed by ".json"; two requests that derive their keys on the same
\* calendar day get the same key, at whatever instants of it, and two that
\* derive them on consecutive days get different keys.
KeyStableAndRollsOver ==
    \A r, q \in Slots :
       (req[r].pc = "list" /\ req[q].pc = "list")
          => /\ Len(req[r].key) = 13
             /\ SubSeq(req[r].key, 9, 13) = <<".", "j", "s", "o", "n">>
             /\ Chars(SubSeq(req[r].key, 1, 3)) \cup Chars(SubSeq(req[r].key, 6, 8))
                   \subseteq Chars(LowerChars)
             /\ Chars(SubSeq(req[r].key, 4, 5)) \subseteq Chars(DigitChars)
             /\ obs[r].day = obs[q].day => req[r].key = req[q].key
             /\ obs[q].day = obs[r].day + 1 => req[r].key # req[q].key

\* A Fetch derived its key on 2024-02-29 and a Save derived a different one
\* on the day after.
KeyRolloverWitness ==
    \E r, q \in Slots :
       /\ req[r].kind = "fetch" /\ req[r].pc = "list"
       /\ req[q].kind = "save" /\ req[q].pc = "list"
       /\ CivilFromDays(obs[r].day) = [year |-> 2024, month |-> 2, day |-> 29]
       /\ obs[q].day = obs[r].day + 1
       /\ req[r].key = <<"t","h","u","2","9","f","e","b",".","j","s","o","n">>
       /\ req[q].key = <<"f","r","i","0","1","m","a","r",".","j","s","o","n">>

\* C11: the key is collision-free. A Fetch handled on another date than the
\* last Save's (that Save ran alone and succeeded, in a folder that held no
\* file of its key, and no Save has arrived since) looks up another key than
\* that Save's, so it finds no file and responds with the empty list: it
\* never returns the document saved on a different date.
KeyCollisionFree ==
    \A r \in Slots :
       (Answered(r, "fetch") /\ AllOk(r)
          /\ hist.lastSave # NoSave /\ hist.lastSave.day # obs[r].day)
          => /\ req[r].key # dateString(hist.lastSave.day * TicksPerDay)
             /\ req[r].resp = NoTodos

\* The keys of the days around the start, derived once.
KeysOfDays ==
    [d \in (DayOf(StartInstant) - 1)..(DayOf(StartInstant + MaxTicks)) |->
        dateString(d * TicksPerDay)]

\* The key of the calendar day d.
KeyOfDay(d) == IF d \in DOMAIN KeysOfDays THEN KeysOfDays[d] ELSE dateString(d * TicksPerDay)

\* C12: every Fetch and every Save looks up the key of the date it is handled
\* on, whatever earlier requests derived: its list call names that key and a
\* Fetch downloads only a file of that name. So a Fetch handled on the day
\* after D downloads no file named with D's key: it responds with its own
\* day's document, or with the empty list.
KeyFreshPerRequest ==
    \A r \in Slots :
       (req[r].kind \in {"fetch", "save"} /\ obs[r].authed)
          => LET today == KeyOfDay(obs[r].day) IN
             /\ req[r].key = today
             /\ req[r].calls[1].op = "list"
             /\ req[r].calls[1].meta.name = today
             /\ (req[r].kind = "fetch" /\ Len(req[r].calls) > 1)
                   => /\ files[req[r].calls[2].fileId].name = today
                      /\ req[r].calls[2].fileId \notin Named(KeyOfDay(obs[r].day - 1))
             /\ (Answered(r, "fetch") /\ AllOk(r) /\ Named(today) = {})
                   => req[r].resp = NoTodos

\* A Fetch handled on the day after a document was saved is answered with
\* the empty list, while the folder holds the file of the day before.
KeyFreshWitness ==
    \E r \in Slots :
       /\ Answered(r, "fetch") /\ AllOk(r)
       /\ obs[r].day = DayOf(hist.start) + 1
       /\ Named(KeyOfDay(obs[r].day - 1)) # {}
       /\ req[r].resp = NoTodos

\* C13: a session becomes authenticated only by a login, and stops being so
\* only by a logout or when 24 hours have passed since that login; after a
\* logout it is not authenticated, and stays so until the next login; and a
\* request is let through exactly when its session is authenticated as it
\* arrives: any other is answered 401.
SessionLifecycle ==
    /\ [](\A s \in Sessions : session[s] # 0 => session[s] <= now + TicksPerDay)
    /\ [](\A r \in Slots :
             req[r].kind # "none"
                => (obs[r].authed <=> req[r].resp # NotAuthenticated)
                   /\ (req[r].resp.status = 401 => req[r].pc = "done" /\ req[r].calls = <<>>))
    /\ [][\A s \in Sessions :
             /\ (~LoggedIn(s) /\ LoggedIn(s)') => Login(s)
             /\ (LoggedIn(s) /\ ~LoggedIn(s)')
                   => \/ Logout(s)
                      \/ session' = session /\ now' = session[s]
             /\ (session[s] # 0 /\ session'[s] = 0) => Logout(s)
             /\ Logout(s) => ~LoggedIn(s)'
             /\ (session[s] = 0 /\ ~Login(s)) => ~LoggedIn(s)']_vars

\* A Fetch was answered 401 because its session's cookie had expired: the
\* user had logged in and never logged out.
SessionExpiredWitness ==
    \E r \in Slots :
       /\ Answered(r, "fetch") /\ req[r].resp = NotAuthenticated
       /\ session[req[r].user] # 0 /\ now >= session[req[r].user]

\* The calls of the store.
StoreOps == {"list", "get", "update", "create"}

\* C14: every call of the store that a request's handler issues, and every
\* one the store carries out for it, bears the access token of the request's
\* own session and of no other session, whatever other requests are in
\* flight.
CredentialIsolation ==
    \A r \in Slots :
       req[r].kind \in {"fetch", "save"}
          => /\ \A i \in 1..Len(req[r].calls) :
                   /\ req[r].calls[i].op \in StoreOps
                   /\ req[r].calls[i].tok = Profile(req[r].user).accessToken
                   /\ \A u \in Sessions \ {req[r].user} :
                         req[r].calls[i].tok # Profile(u).accessToken
             /\ \A i \in 1..Len(log[r]) :
                   log[r][i].tok = Profile(req[r].user).accessToken

\* Requests of two sessions are in flight at once, one awaiting its download
\* and one its write, each call with its own session's token.
CredentialIsolationWitness ==
    \E r, q \in Slots :
       /\ req[r].user = "s1" /\ req[r].pc = "get"
       /\ req[q].user = "s2" /\ req[q].pc \in {"update", "create"}
       /\ Awaited(r).tok = "token-s1" /\ Awaited(q).tok = "token-s2"

\* C15: a Save whose list call succeeded issues exactly one write. Listed at
\* least one file, it updates the first one listed with the body as JSON
\* text, and creates nothing; listed none, it creates a file that has the
\* key it looked up as its name, the folder as its parent, the type
\* application/json and the body as JSON text as its content.
SaveBranches ==
    \A r \in Slots :
       (req[r].kind = "save" /\ Len(req[r].calls) > 1)
          => /\ Len(req[r].calls) = 2
             /\ req[r].calls[1].op = "list" /\ req[r].calls[1].result = "ok"
             /\ req[r].calls[2].content = JSONStringify(req[r].body)
             /\ req[r].fileList # <<>>
                   => /\ req[r].calls[2].op = "update"
                      /\ req[r].calls[2].fileId = req[r].fileList[1]
             /\ req[r].fileList = <<>>
                   => /\ req[r].calls[2].op = "create"
                      /\ req[r].calls[2].meta =
                            [name |-> req[r].calls[1].meta.name,
                             parents |-> <<"folder">>,
                             mimeType |-> "application/json"]
                      /\ (req[r].pc = "done" /\ Writes(r) # {})
                            => files[Len(files)] =
                                  [name |-> req[r].key, parents |-> <<"folder">>,
                                   mimeType |-> "application/json",
                                   content |-> JSONStringify(req[r].body)]

\* A Save was listed two files of its key, the newer one first, and updated
\* the newer one, leaving the older with other content.
SaveBranchesWitness ==
    \E r \in Slots :
       /\ Answered(r, "save") /\ req[r].resp = SaveOk
       /\ req[r].fileList = <<2, 1>>
       /\ Ops(r) = <<"list", "update">>
       /\ log[r][2].fileId = 2
       /\ files[2].content = JSONStringify(req[r].body)
       /\ files[1].content # files[2].content

\* C16: no retries. A Fetch calls list once and then get at most once, a Save
\* list once and then one of update and create at most once, a reminder
\* sendMail once; a call that failed is the request's last, answered at once;
\* the store and the relay carry out no more than was called; and once the
\* request is answered its handler returns and nothing more is done for it.
NoRetries ==
    /\ [](\A r \in Slots :
             /\ req[r].kind = "fetch" => Ops(r) \in {<<>>, <<"list">>, <<"list", "get">>}
             /\ req[r].kind = "save"
                   => Ops(r) \in {<<>>, <<"list">>, <<"list", "update">>, <<"list", "create">>}
             /\ req[r].kind = "remind" => Ops(r) \in {<<>>, <<"send">>}
             /\ \A i \in 1..Len(req[r].calls) :
                   /\ req[r].calls[i].result = "error"
                         => i = Len(req[r].calls) /\ req[r].pc = "done"
                   /\ req[r].calls[i].result = "pending"
                         => i = Len(req[r].calls) /\ req[r].pc = req[r].calls[i].op
             /\ Len(log[r]) <= Len(req[r].calls)
             /\ \A i \in 1..Len(log[r]) : log[r][i].op = req[r].calls[i].op)
    /\ [][\A r \in Slots :
             req[r].pc = "done"
                => /\ req'[r] = IdleReq /\ log'[r] = <<>>
                   /\ files' = files
                   /\ \A q \in Slots \ {r} : req'[q] = req[q] /\ log'[q] = log[q]]_vars

\* A Fetch whose download failed was answered 500: it made the two calls and
\* the store served the list only.
NoRetriesWitness ==
    \E r \in Slots :
       /\ Answered(r, "fetch") /\ req[r].resp.status = 500
       /\ Ops(r) = <<"list", "get">>
       /\ req[r].calls[2].result = "error"
       /\ Len(log[r]) = 1

\* C17: the frame of a Save that finds a match. No step deletes or renames a
\* file or moves it: the folder only grows and a file keeps its identifier,
\* name, parent and type. A Save's list call changes no file, and when it
\* succeeds while the folder holds a file of the key the Save goes on to an
\* update; the update changes at most the content of the first file listed,
\* creates no file and leaves every other file, of the same name or not, as
\* it was.
SaveFrame ==
    [][/\ Len(files') >= Len(files)
       /\ \A i \in 1..Len(files) :
             /\ files'[i].name = files[i].name
             /\ files'[i].parents = files[i].parents
             /\ files'[i].mimeType = files[i].mimeType
       /\ \A r \in Slots :
             (req[r].kind = "save" /\ req'[r] # req[r])
                => /\ req[r].pc = "list"
                      => /\ files' = files
                         /\ (req'[r].calls[1].result = "ok" /\ Named(req[r].key) # {})
                               => /\ req'[r].pc = "update"
                                  /\ req'[r].fileList # <<>>
                   /\ req[r].pc = "update"
                      => /\ Len(files') = Len(files)
                         /\ \A i \in 1..Len(files) :
                               i # req[r].fileList[1] => files'[i] = files[i]
                         /\ files'[req[r].fileList[1]].content
                               \in {files[req[r].fileList[1]].content,
                                    JSONStringify(req[r].body)}]_vars

\* A Save was listed two files of its key, the older one first, and replaced
\* the older one's content: the newer one holds other content still.
SaveFrameWitness ==
    \E r \in Slots :
       /\ Answered(r, "save") /\ req[r].resp = SaveOk
       /\ req[r].fileList = <<1, 2>>
       /\ Writes(r) # {} /\ log[r][2].fileId = 1
       /\ files[1].content = JSONStringify(req[r].body)
       /\ files[2].name = files[1].name
       /\ files[2].content # files[1].content

\* C18: Fetch and send-reminder are read-only. A Fetch calls only list and
\* get, and the store carries out only those for it; a reminder calls
\* sendMail only and nothing of the store; and no step of a Fetch or of a
\* reminder, from its arrival to its handler's return and whatever its
\* outcome, changes the folder's files or their contents.
FetchAndRemindReadOnly ==
    /\ [](\A r \in Slots :
             /\ req[r].kind = "fetch"
                   => /\ \A i \in 1..Len(req[r].calls) : req[r].calls[i].op \in {"list", "get"}
                      /\ \A i \in 1..Len(log[r]) : log[r][i].op \in {"list", "get"}
             /\ req[r].kind = "remind"
                   => /\ \A i \in 1..Len(req[r].calls) : req[r].calls[i].op = "send"
                      /\ \A i \in 1..Len(log[r]) : log[r][i].op = "send")
    /\ [][\A r \in Slots :
             (req'[r] # req[r]
                /\ (req[r].kind \in {"fetch", "remind"} \/ req'[r].kind \in {"fetch", "remind"}))
                => files' = files]_vars

\* A Fetch downloaded a document and a reminder was sent: the folder holds
\* the file as the Save left it.
ReadOnlyWitness ==
    \E r \in Slots :
       /\ Answered(r, "fetch") /\ AllOk(r) /\ Ops(r) = <<"list", "get">>
       /\ Len(files) = 1
       /\ files[1].content = log[r][2].content
       /\ \E q \in Slots : req[q].kind = "remind" /\ req[q].pc = "send"

\* C19: a Save derives its key once, as it arrives. Its list call looks up
\* that key, and the file it creates bears the same name, that of the day the
\* Save arrived on, also when the date has rolled over while the Save awaited
\* its list call.
SaveKeyDerivedOnce ==
    \A r \in Slots :
       (req[r].kind = "save" /\ Len(req[r].calls) > 0)
          => /\ req[r].key = KeyOfDay(obs[r].day)
             /\ req[r].calls[1].meta.name = req[r].key
             /\ \A i \in 1..Len(req[r].calls) :
                   req[r].calls[i].op = "create"
                      => req[r].calls[i].meta.name = req[r].calls[1].meta.name
             /\ \A i \in 1..Len(log[r]) :
                   log[r][i].op = "create"
                      => files[log[r][i].fileId].name = req[r].calls[1].meta.name

\* A Save that arrived on one day created its file on the next, after the
\* date rolled over: the file bears the key of the day the Save arrived on,
\* which is not the key of the day it is.
SaveAcrossMidnightWitness ==
    \E r \in Slots :
       /\ Answered(r, "save") /\ req[r].resp = SaveOk
       /\ Ops(r) = <<"list", "create">>
       /\ DayOf(now) = obs[r].day + 1
       /\ files[log[r][2].fileId].name = KeyOfDay(obs[r].day)
       /\ files[log[r][2].fileId].name # dateString(now)

\* C20: every request is answered. A request that has arrived, on any of the
\* three routes and from any session, one with no e-mail address included,
\* gets its response in the end, provided its remote calls return or fail.
EveryRequestAnswered ==
    \A r \in Slots : (req[r].kind # "none") ~> (req[r].pc = "done")

====
